---- MODULE Spec2Model ----
(***************************************************************************)
(* Model of the two notebooks of atelier_pytorch_omp:                      *)
(*   partie_2.ipynb  the patch Dataset (index construction, item access),  *)
(*                   its split and its batch-loading workers;              *)
(*   partie_1.ipynb  the GaborFilters layer (construction).                *)
(* Arrays are 0-based as in numpy: a raster is a record of its shape and   *)
(* a function from coordinate tuples to values.                            *)
(***************************************************************************)
EXTENDS Integers, Sequences, FiniteSets, TLC

(* ------------------------------ bounds --------------------------------- *)
MaxDim == 3        \* largest raster height / width drawn at Init
MaxChan == 2       \* largest number of image channels drawn at Init
MaxLabel == 1      \* class ids of the drawn label rasters are 0..MaxLabel
MaxPatch == 3      \* largest patch_size drawn at Init
NumWorkers == 2    \* batch-loading workers of the concurrent specification

(* --------------------------- python / numpy ---------------------------- *)
\* Python's // : floor division, also for a negative dividend.
PyFloorDiv(a, b) ==
    IF a >= 0 THEN a \div b ELSE -((-a + b - 1) \div b)

\* The positions start:stop selects on an axis of length n (step 1): a
\* negative bound counts from the end, then both are clamped to [0, n].
PySliceBound(k, n) ==
    LET k1 == IF k < 0 THEN k + n ELSE k
    IN  IF k1 < 0 THEN 0 ELSE IF k1 > n THEN n ELSE k1

PySlice(start, stop, n) ==
    LET a == PySliceBound(start, n)
        b == PySliceBound(stop, n)
    IN  IF b > a THEN [k \in 0..(b - a - 1) |-> a + k] ELSE [k \in {} |-> 0]

\* Number of positions a slice selects.
SliceLen(s) == Cardinality(DOMAIN s)

\* np.asarray(..., dtype="float32") of a pixel value: exact up to 2^24,
\* beyond that the value is rounded to a 24-bit mantissa (round to even).
F32Limit == 16777216

Float32(v) ==
    LET a == IF v < 0 THEN -v ELSE v
        r == IF a <= F32Limit THEN a
             ELSE LET q == a \div 2
                      odd == a % 2 = 1
                  IN  IF ~odd THEN a
                      ELSE IF q % 2 = 0 THEN 2 * q ELSE 2 * (q + 1)
    IN  IF v < 0 THEN -r ELSE r

\* np.asarray(..., dtype="int64") of a uint8 class id: 0..255 is kept as is.
Int64(v) == v

(* ------------------------------- rasters ------------------------------- *)
\* Row-major enumeration of the coordinates of an h x w array, as a sequence.
RowMajor(h, w) == [k \in 1..(h * w) |-> <<(k - 1) \div w, (k - 1) % w>>]

\* The pixels of the image `img`: value at (row, col, channel).
Image(h, w, c, seed) ==
    [h |-> h, w |-> w, c |-> c,
     px |-> [t \in (0..(h - 1)) \X (0..(w - 1)) \X (0..(c - 1)) |->
                seed + 100 * t[1] + 10 * t[2] + t[3]]]

\* Label rasters `gt`: striped by row, by column or diagonally, or constant.
StripedGt(h, w, a, b, k) ==
    [h |-> h, w |-> w,
     px |-> [t \in (0..(h - 1)) \X (0..(w - 1)) |->
                (a * t[1] + b * t[2] + k) % (MaxLabel + 1)]]

\* Label raster that is 0 everywhere except one pixel of class 1.
SingleGt(h, w, r, c) ==
    [h |-> h, w |-> w,
     px |-> [t \in (0..(h - 1)) \X (0..(w - 1)) |->
                IF t = <<r, c>> THEN 1 ELSE 0]]

(* ------------------------- Dataset.__init__ ---------------------------- *)
\* mask = np.ones_like(gt); for l in ignored_labels: mask[gt == l] = 0
Mask(g, ignored_labels) ==
    [t \in DOMAIN g.px |-> IF g.px[t] \in ignored_labels THEN 0 ELSE 1]

\* x_pos, y_pos = np.nonzero(mask): the nonzero coordinates in row-major order.
NonZero(g, mask) ==
    SelectSeq(RowMajor(g.h, g.w), LAMBDA t : mask[t] # 0)

\* The border test of the list comprehension (p > 0 branch).
InsideMarginNoUpper(t, p, d) ==
    t[1] >= p /\ t[2] >= p

InsideMargin(t, p, d) ==
    t[1] >= p /\ t[1] < d.h - p /\ t[2] >= p /\ t[2] < d.w - p

\* self.indices
BuildIndicesNoIgnore(d, g, patch_size, ignored_labels) ==
    LET pos == NonZero(g, Mask(g, {}))
        p   == PyFloorDiv(patch_size, 2)
    IN  IF p > 0 THEN SelectSeq(pos, LAMBDA t : InsideMargin(t, p, d))
        ELSE pos

BuildIndices(d, g, patch_size, ignored_labels) ==
    LET pos == NonZero(g, Mask(g, ignored_labels))
        p   == PyFloorDiv(patch_size, 2)
    IN  IF p > 0 THEN SelectSeq(pos, LAMBDA t : InsideMargin(t, p, d))
        ELSE pos

\* self.labels = [self.label[x, y] for x, y in self.indices]
BuildLabelsShifted(g, indices) ==
    [k \in 1..Len(indices) |-> g.px[indices[IF k = 1 THEN Len(indices) ELSE k - 1]]]

BuildLabels(g, indices) ==
    [k \in 1..Len(indices) |-> g.px[indices[k]]]

\* The object Dataset(data, gt, hyperparams) leaves behind. self.data and
\* self.label are references to the caller's arrays (the variables img, gt).
NewDataset(d, g, hp) ==
    LET ind == BuildIndices(d, g, hp.patch_size, hp.ignored_labels)
    IN  [patch_size     |-> hp.patch_size,
         ignored_labels |-> hp.ignored_labels,
         height         |-> d.h,
         width          |-> d.w,
         indices        |-> ind,
         labels         |-> BuildLabels(g, ind)]

NoDataset == [patch_size |-> 0, ignored_labels |-> {}, height |-> 0,
              width |-> 0, indices |-> <<>>, labels |-> <<>>]

(* ------------------------------- state --------------------------------- *)
VARIABLES
    img,            \* the image array (height x width x channel)
    gt,             \* the label array (height x width)
    hyperparams,    \* {'ignored_labels': ..., 'patch_size': ...}
    dataset,        \* the Dataset object
    status,         \* "new" before Dataset(...) ran, then its outcome
    size,           \* the last value len(dataset) returned, NoSize before
    train_dataset,  \* the dataset positions of the training subset
    val_dataset,    \* the dataset positions of the validation subset
    split,          \* TRUE once the dataset has been split
    nworkers,       \* number of callers of item access
    pc,             \* per worker: "idle", "sliced", "returned", "raised"
    call,           \* per worker: the locals of the running __getitem__
    out,            \* per worker: what the call returned or raised
    heap,           \* the arrays allocated by the calls, by owner
    img0,           \* history: the image as it was loaded
    gb_args,        \* the arguments of GaborFilters(...)
    gb,             \* the GaborFilters object
    gbt,            \* its tensors, gradients and optimizer, and the last weight read
    train,          \* the fine-tuning loop of partie_2
    relabel         \* the relabelling loop of the ground truth

rasters == <<img, gt, hyperparams, img0>>
object  == <<dataset, status>>
subsets == <<train_dataset, val_dataset, split>>
\* Everything outside the Dataset: the Gabor layer and the two loops.
gbvars  == <<gb_args, gb, gbt, train, relabel>>
vars == <<img, gt, hyperparams, dataset, status, size, train_dataset,
          val_dataset, split, nworkers, pc, call, out, heap, img0,
          gb_args, gb, gbt, train, relabel>>

Workers == 1..NumWorkers
NoSize == -1
Poison == -7                 \* the value a caller writes into its patch
DataBase == 0                \* the base of an array that is a view of img

NoCall == [via |-> "none", j |-> 0, i |-> 0, x |-> 0, y |-> 0,
           x1 |-> 0, y1 |-> 0, x2 |-> 0, y2 |-> 0, label |-> 0]
NoOut == [status |-> "none", via |-> "none", j |-> 0, i |-> 0, base |-> -1,
          x1 |-> 0, y1 |-> 0, x2 |-> 0, y2 |-> 0, label |-> 0,
          written |-> FALSE]
EmptyPatch == [c |-> 0, ph |-> 0, pw |-> 0, px |-> [t \in {} |-> 0]]

NoGaborArgs == [in_channels |-> 0, out_channels |-> 0, kernel_size |-> 0,
                n_thetas |-> 0]
NoGabor == [status |-> "new", n_thetas |-> 0, n_groups |-> 0,
            lambda_ |-> <<>>, psi |-> <<>>, sigma |-> <<>>, gamma |-> <<>>,
            thetas |-> <<>>]

(* ----------------------------- the inputs ------------------------------ *)
\* Offsets between the shape of gt and the shape of the image.
Deltas == {<<0, 0>>, <<1, 0>>, <<0, -1>>}
PatchSizes == (-1)..MaxPatch
IgnoredSets == {{}, {0}, {MaxLabel}, 0..MaxLabel}

GtFamily(h, w) ==
    {StripedGt(h, w, a, b, k) : a \in 0..1, b \in 0..1, k \in 0..MaxLabel}
        \cup {SingleGt(h, w, h \div 2, w \div 2)}

DatasetIdle ==
    /\ dataset = NoDataset
    /\ status = "new"
    /\ size = NoSize
    /\ train_dataset = <<>>
    /\ val_dataset = <<>>
    /\ split = FALSE
    /\ pc = [w \in Workers |-> "idle"]
    /\ call = [w \in Workers |-> NoCall]
    /\ out = [w \in Workers |-> NoOut]
    /\ heap = [w \in Workers |-> EmptyPatch]
    /\ img0 = img

NoWeight == [status |-> "none", shape |-> <<>>, bank |-> <<>>]
NoTensors == [lambda_ |-> <<>>, psi |-> <<>>, sigma |-> <<>>, gamma |-> <<>>,
              thetas |-> <<>>, parameters |-> {}, grad |-> {},
              optimizer |-> {}, steps |-> 0, weight |-> NoWeight,
              seen |-> NoWeight, graph |-> FALSE]
NoTrain == [pc |-> "off"]
NoRelabel == [pc |-> "off"]

LoopsIdle ==
    /\ train = NoTrain
    /\ relabel = NoRelabel

GaborIdle ==
    /\ gb_args = NoGaborArgs
    /\ gb = NoGabor
    /\ gbt = NoTensors
    /\ LoopsIdle

\* Any image / label pair, any patch size and ignored set: the arguments
\* Dataset(...) can be handed, the ones the contract rejects included.
InitAny ==
    /\ \E h \in 1..MaxDim, w \in 1..MaxDim, d \in Deltas :
          /\ h + d[1] >= 1 /\ w + d[2] >= 1
          /\ img = Image(h, w, MaxChan, 1)
          /\ gt \in GtFamily(h + d[1], w + d[2])
    /\ hyperparams \in [patch_size : PatchSizes, ignored_labels : IgnoredSets]
    /\ nworkers = 1
    /\ DatasetIdle
    /\ GaborIdle

\* The scenario of the specification: a 6 x 6 x 1 image, labels all zero but
\* a single 1 at (3, 3), nothing ignored, patch_size 3.
InitScenario ==
    /\ img = Image(6, 6, 1, 1)
    /\ gt = SingleGt(6, 6, 3, 3)
    /\ hyperparams = [patch_size |-> 3, ignored_labels |-> {}]
    /\ nworkers = 1
    /\ DatasetIdle
    /\ GaborIdle

Init == InitAny \/ InitScenario

\* The notebook's use: a square image, diagonal label stripes, 3 x 3
\* patches, class 0 ignored (hyperparams of the notebook); n callers of
\* item access.
InitLoaded(n) ==
    /\ img = Image(MaxDim + 1, MaxDim + 1, 1, 1)
    /\ \E k \in 0..MaxLabel : gt = StripedGt(MaxDim + 1, MaxDim + 1, 1, 1, k)
    /\ hyperparams = [patch_size |-> 3, ignored_labels |-> {0}]
    /\ nworkers = n
    /\ DatasetIdle
    /\ GaborIdle

InitWorkers == InitLoaded(NumWorkers)

InitSplit == InitLoaded(2)

(* ------------------------------ Dataset -------------------------------- *)
\* dataset = Dataset(img, gt, hyperparams)
DatasetInit ==
    /\ status = "new"
    /\ dataset' = NewDataset(img, gt, hyperparams)
    /\ status' = "built"
    /\ UNCHANGED <<rasters, size, subsets, nworkers, pc, call, out, heap, gbvars>>

\* Dataset.__len__
DatasetLenOffByOne(ds) == Len(ds.indices) - 1

DatasetLen(ds) == Len(ds.indices)

LenQuery ==
    /\ status = "built"
    /\ size' = DatasetLen(dataset)
    /\ UNCHANGED <<rasters, object, subsets, nworkers, pc, call, out, heap, gbvars>>

\* Whether position i is one item access accepts.
InRangeWrapping(ds, i) == i >= -Len(ds.indices) /\ i < Len(ds.indices)

InRange(ds, i) == i >= 0 /\ i < Len(ds.indices)

\* The positions tried by the callers: every valid one and some on each side.
Tried(ds) == (-2)..(Len(ds.indices) + 1)

\* x, y = self.indices[i]: numpy counts a negative i from the end.
StoredCoordinate(ds, i) ==
    IF i < 0 THEN ds.indices[Len(ds.indices) + i + 1] ELSE ds.indices[i + 1]

\* x1, y1 = x - self.patch_size // 2, y - self.patch_size // 2
\* x2, y2 = x1 + self.patch_size, y1 + self.patch_size
PatchBoundsOffCentre(ds, x, y) ==
    LET x1 == x - PyFloorDiv(ds.patch_size, 2) + 1
        y1 == y - PyFloorDiv(ds.patch_size, 2)
    IN  [x1 |-> x1, y1 |-> y1,
         x2 |-> x1 + ds.patch_size, y2 |-> y1 + ds.patch_size]

PatchBounds(ds, x, y) ==
    LET x1 == x - PyFloorDiv(ds.patch_size, 2)
        y1 == y - PyFloorDiv(ds.patch_size, 2)
    IN  [x1 |-> x1, y1 |-> y1,
         x2 |-> x1 + ds.patch_size, y2 |-> y1 + ds.patch_size]

\* data = self.data[x1:x2, y1:y2]: the rows and the columns of the view.
DataSlice(d, x1, x2, y1, y2) ==
    [rows |-> PySlice(x1, x2, d.h), cols |-> PySlice(y1, y2, d.w)]

\* label = self.label[x, y]
LabelAt(g, x, y) == g.px[<<x, y>>]

\* The locals of __getitem__(i) once data and label are taken.
GetItemLocals(ds, g, i) ==
    LET t == StoredCoordinate(ds, i)
        b == PatchBounds(ds, t[1], t[2])
    IN  [via |-> "dataset", j |-> i, i |-> i, x |-> t[1], y |-> t[2],
         x1 |-> b.x1, y1 |-> b.y1, x2 |-> b.x2, y2 |-> b.y2,
         label |-> LabelAt(g, t[1], t[2])]

\* np.asarray(np.copy(data).transpose((2, 0, 1)), dtype="float32"): the
\* values of the view v of d, channel first, then the rows, then the columns.
CopyTransposeSwapped(d, v) ==
    [c |-> d.c, ph |-> SliceLen(v.rows), pw |-> SliceLen(v.cols),
     px |-> [t \in (0..(d.c - 1)) \X (0..(SliceLen(v.rows) - 1))
                     \X (0..(SliceLen(v.cols) - 1)) |->
                Float32(d.px[<<v.rows[t[3]], v.cols[t[2]], t[1]>>])]]

CopyTranspose(d, v) ==
    [c |-> d.c, ph |-> SliceLen(v.rows), pw |-> SliceLen(v.cols),
     px |-> [t \in (0..(d.c - 1)) \X (0..(SliceLen(v.rows) - 1))
                     \X (0..(SliceLen(v.cols) - 1)) |->
                Float32(d.px[<<v.rows[t[2]], v.cols[t[3]], t[1]>>])]]

CopyPatch(d, x1, x2, y1, y2) == CopyTranspose(d, DataSlice(d, x1, x2, y1, y2))

\* The array np.copy allocates for the call of worker w: its own, new one.
ResultBaseView(w) == DataBase

ResultBaseShared(w) == 1

ResultBase(w) == w

\* The patch a returned result denotes now.
PatchOf(w) ==
    IF out[w].base = DataBase
    THEN CopyPatch(img, out[w].x1, out[w].x2, out[w].y1, out[w].y2)
    ELSE heap[out[w].base]

\* __getitem__(i), up to the two reads; IndexError outside [0, len).
GetItemBegin(w, i) ==
    /\ status = "built"
    /\ w <= nworkers
    /\ pc[w] = "idle"
    /\ IF InRange(dataset, i)
       THEN /\ call' = [call EXCEPT ![w] = GetItemLocals(dataset, gt, i)]
            /\ pc' = [pc EXCEPT ![w] = "sliced"]
            /\ out' = out
       ELSE /\ out' = [out EXCEPT ![w] = [NoOut EXCEPT !.status = "IndexError",
                                                       !.via = "dataset",
                                                       !.j = i, !.i = i]]
            /\ pc' = [pc EXCEPT ![w] = "raised"]
            /\ call' = call
    /\ UNCHANGED <<rasters, object, size, subsets, nworkers, heap, gbvars>>

\* __getitem__, the copies, the conversions and the return.
GetItemReturn(w) ==
    /\ pc[w] = "sliced"
    /\ LET c == call[w]
           b == ResultBase(w)
       IN  /\ heap' = IF b = DataBase THEN heap
                      ELSE [heap EXCEPT ![b] = CopyPatch(img, c.x1, c.x2, c.y1, c.y2)]
           /\ out' = [out EXCEPT ![w] =
                        [status |-> "ok", via |-> c.via, j |-> c.j, i |-> c.i,
                         base |-> b,
                         x1 |-> c.x1, y1 |-> c.y1, x2 |-> c.x2, y2 |-> c.y2,
                         label |-> Int64(c.label), written |-> FALSE]]
    /\ pc' = [pc EXCEPT ![w] = "returned"]
    /\ call' = [call EXCEPT ![w] = NoCall]
    /\ UNCHANGED <<rasters, object, size, subsets, nworkers, gbvars>>

\* The caller writes into element [0, 0, 0] of the patch it was returned.
WritePatch(w) ==
    /\ pc[w] = "returned"
    /\ ~out[w].written
    /\ <<0, 0, 0>> \in DOMAIN PatchOf(w).px
    /\ IF out[w].base = DataBase
       THEN LET v == DataSlice(img, out[w].x1, out[w].x2, out[w].y1, out[w].y2)
            IN  /\ img' = [img EXCEPT !.px[<<v.rows[0], v.cols[0], 0>>] = Poison]
                /\ heap' = heap
       ELSE /\ heap' = [heap EXCEPT ![out[w].base].px[<<0, 0, 0>>] = Poison]
            /\ img' = img
    /\ out' = [out EXCEPT ![w].written = TRUE]
    /\ UNCHANGED <<gt, hyperparams, img0, object, size, subsets, nworkers,
                   pc, call, gbvars>>

\* The caller drops what it was returned (or handles the exception).
Release(w) ==
    /\ pc[w] \in {"returned", "raised"}
    /\ pc' = [pc EXCEPT ![w] = "idle"]
    /\ heap' = IF out[w].base \in Workers
               THEN [heap EXCEPT ![out[w].base] = EmptyPatch] ELSE heap
    /\ out' = [out EXCEPT ![w] = NoOut]
    /\ UNCHANGED <<rasters, object, size, subsets, nworkers, call, gbvars>>

(* ------------------------------- split --------------------------------- *)
\* The n dataset positions in the order the split draws them: the identity
\* rotated by r.
SplitOrder(n, r) == [k \in 1..n |-> (k - 1 + r) % n]

\* The first n_train drawn positions, and the remaining ones.
TrainPositions(order, n_train) == SubSeq(order, 1, n_train)

ValPositionsOverlapping(order, n_train) ==
    SubSeq(order, IF n_train > 0 THEN n_train ELSE 1, Len(order))

ValPositions(order, n_train) == SubSeq(order, n_train + 1, Len(order))

\* train_dataset, val_dataset = split of the dataset
Split(r, n_train) ==
    /\ status = "built"
    /\ ~split
    /\ LET order == SplitOrder(Len(dataset.indices), r)
       IN  /\ train_dataset' = TrainPositions(order, n_train)
           /\ val_dataset' = ValPositions(order, n_train)
    /\ split' = TRUE
    /\ UNCHANGED <<rasters, object, size, nworkers, pc, call, out, heap, gbvars>>

SubsetOf(via) == IF via = "train" THEN train_dataset ELSE val_dataset

\* Subset.__getitem__(j): the position of the dataset it forwards to.
SubsetPositionUnmapped(positions, j) == j

SubsetPosition(positions, j) == positions[j + 1]

\* train_dataset[j] / val_dataset[j], up to the two reads of __getitem__.
SubsetGetItemBegin(w, via, j) ==
    /\ split
    /\ w <= nworkers
    /\ pc[w] = "idle"
    /\ j >= 0 /\ j < Len(SubsetOf(via))
    /\ LET i == SubsetPosition(SubsetOf(via), j)
       IN  /\ InRange(dataset, i)
           /\ call' = [call EXCEPT ![w] =
                         [GetItemLocals(dataset, gt, i) EXCEPT !.via = via, !.j = j]]
    /\ pc' = [pc EXCEPT ![w] = "sliced"]
    /\ UNCHANGED <<rasters, object, size, subsets, nworkers, out, heap, gbvars>>

(* ---------------------------- GaborFilters ----------------------------- *)
MaxIn == 3         \* largest in_channels drawn at Init
MaxOut == 40       \* largest out_channels drawn at Init
ThetaDivisor == 16 \* self.n_thetas = self.out_channels // 16

\* The n_thetas arguments tried: the default, the divisor, and 1.
NThetasArgs == {1, 5, ThetaDivisor}
KernelSizes == {3, 11}

\* The Dataset of partie_2 plays no part in partie_1.
DatasetUnused ==
    /\ img = Image(1, 1, 1, 1)
    /\ gt = StripedGt(1, 1, 0, 0, 0)
    /\ hyperparams = [patch_size |-> 0, ignored_labels |-> {}]
    /\ nworkers = 0
    /\ DatasetIdle

InitGabor ==
    /\ gb_args \in [in_channels : 1..MaxIn, out_channels : 1..MaxOut,
                    kernel_size : KernelSizes, n_thetas : NThetasArgs]
    /\ gb = NoGabor
    /\ gbt = NoTensors
    /\ LoopsIdle
    /\ DatasetUnused

\* self.n_thetas of the constructed layer.
OrientationCountFromArgument(a) == a.n_thetas

OrientationCount(a) == a.out_channels \div ThetaDivisor

\* The shape (out_channels // n_thetas, 1, in_channels, 1, 1) of each of
\* lambda_, psi, sigma and gamma.
ParameterShape(a, n_thetas) ==
    <<a.out_channels \div n_thetas, 1, a.in_channels, 1, 1>>

\* torch.linspace(0., 2 * math.pi, n): entry j (from 0) as the fraction
\* <<numerator, denominator>> of a full turn; both ends are included.
Linspace(n) ==
    [k \in 1..n |-> IF n = 1 THEN <<0, 1>> ELSE <<k - 1, n - 1>>]

\* torch.rand(...) initial values of a parameter tensor of the given shape,
\* one per (group, input channel); `base` tells the four tensors apart.
InitValues(shape, base) ==
    [e \in (0..(shape[1] - 1)) \X (0..(shape[3] - 1)) |-> base + 10 * e[1] + e[2]]

LambdaBase == 1000
PsiBase == 2000
SigmaBase == 3000
GammaBase == 4000

\* The tensors registered as nn.Parameter: what parameters() yields.
ParametersWithThetas == {"lambda_", "psi", "sigma", "gamma", "thetas"}

Parameters == {"lambda_", "psi", "sigma", "gamma"}

\* gb = GaborFilters(in_channels, out_channels, kernel_size, n_thetas=...)
GaborInit ==
    /\ gb.status = "new"
    /\ LET n == OrientationCount(gb_args)
       IN  IF n = 0
           THEN \* out_channels // self.n_thetas divides by zero
                /\ gb' = [NoGabor EXCEPT !.status = "ZeroDivisionError"]
                /\ gbt' = gbt
           ELSE /\ gb' = [status   |-> "ok",
                          n_thetas |-> n,
                          n_groups |-> gb_args.out_channels \div n,
                          lambda_  |-> ParameterShape(gb_args, n),
                          psi      |-> ParameterShape(gb_args, n),
                          sigma    |-> ParameterShape(gb_args, n),
                          gamma    |-> ParameterShape(gb_args, n),
                          thetas   |-> Linspace(n)]
                /\ gbt' = [NoTensors EXCEPT
                             !.lambda_ = InitValues(ParameterShape(gb_args, n), LambdaBase),
                             !.psi = InitValues(ParameterShape(gb_args, n), PsiBase),
                             !.sigma = InitValues(ParameterShape(gb_args, n), SigmaBase),
                             !.gamma = InitValues(ParameterShape(gb_args, n), GammaBase),
                             !.thetas = Linspace(n),
                             !.parameters = Parameters]
    /\ UNCHANGED <<gb_args, train, relabel, rasters, object, size, subsets,
                   nworkers, pc, call, out, heap>>

(* ------------------------ GaborFilters.gabor_filter --------------------- *)
RECURSIVE Product(_)
Product(shape) ==
    IF shape = <<>> THEN 1 ELSE Head(shape) * Product(Tail(shape))

\* A shape padded with leading 1s to n axes.
PadShape(shape, n) ==
    [d \in 1..n |-> IF d <= n - Len(shape) THEN 1 ELSE shape[d - (n - Len(shape))]]
        \o <<>>

Max2(a, b) == IF a >= b THEN a ELSE b

\* Whether two shapes broadcast together (torch: aligned on the right, each
\* pair of sizes equal or one of them 1), and the shape they broadcast to.
Broadcastable(s1, s2) ==
    LET n == Max2(Len(s1), Len(s2))
        p1 == PadShape(s1, n)
        p2 == PadShape(s2, n)
    IN  \A d \in 1..n : p1[d] = p2[d] \/ p1[d] = 1 \/ p2[d] = 1

BroadcastShape(s1, s2) ==
    LET n == Max2(Len(s1), Len(s2))
        p1 == PadShape(s1, n)
        p2 == PadShape(s2, n)
    IN  [d \in 1..n |-> Max2(p1[d], p2[d])] \o <<>>

\* x = x.view(...), y = y.view(...): rows along the axis before last,
\* columns along the last one.
XView(k) == <<k, 1>>
YView(k) == <<1, k>>

\* thetas = self.thetas.view(...): the orientations on an axis of their own
\* in front of the axes of the parameters, so that orientation varies slower
\* than the group in the bank.
ThetasViewAfterGroups(n) == <<n, 1, 1, 1>>

ThetasView(n) == <<n, 1, 1, 1, 1, 1>>

\* The shape of gb before the final view: x_ and y_ broadcast the
\* orientations with the grid, then with the parameters.
SynthesisShape(a, g) ==
    LET k  == a.kernel_size
        th == ThetasView(Len(g.thetas))
        xr == BroadcastShape(BroadcastShape(XView(k), th),
                             BroadcastShape(YView(k), th))
    IN  BroadcastShape(xr, g.lambda_)

SynthesisBroadcasts(a, g) ==
    LET k  == a.kernel_size
        th == ThetasView(Len(g.thetas))
        xr == BroadcastShape(BroadcastShape(XView(k), th),
                             BroadcastShape(YView(k), th))
    IN  Broadcastable(xr, g.lambda_)

\* The multi-index, in an array of the given shape, of the element at flat
\* (row-major) position f.
Unravel(f, shape) ==
    [d \in 1..Len(shape) |->
        (f \div Product(SubSeq(shape, d + 1, Len(shape)))) % shape[d]] \o <<>>

\* The index a multi-index has in a tensor of shape s broadcast to the
\* shape of the multi-index: size-1 axes are read at 0.
BroadcastIndex(idx, s) ==
    LET n == Len(idx)
    IN  [d \in 1..Len(s) |-> IF s[d] = 1 THEN 0 ELSE idx[d + n - Len(s)]] \o <<>>

\* gb.view(out_channels, in_channels, k, k): the target shape.
ViewShape(a) == <<a.out_channels, a.in_channels, a.kernel_size, a.kernel_size>>

\* The element [o, ic, r, c] of the bank: which orientation, which entry of
\* the parameters and which grid point the formula was evaluated at.
BankElement(a, g, t, o, ic, r, c) ==
    LET k    == a.kernel_size
        f    == ((o * a.in_channels + ic) * k + r) * k + c
        idx  == Unravel(f, SynthesisShape(a, g))
        th   == BroadcastIndex(idx, ThetasView(Len(g.thetas)))[1]
        pi   == BroadcastIndex(idx, g.lambda_)
        e    == <<pi[1], pi[3]>>
    IN  [orientation |-> th, group |-> pi[1], channel |-> pi[3],
         theta  |-> t.thetas[th + 1],
         lambda_ |-> t.lambda_[e], psi |-> t.psi[e],
         sigma  |-> t.sigma[e], gamma |-> t.gamma[e],
         x |-> BroadcastIndex(idx, XView(k))[1],
         y |-> BroadcastIndex(idx, YView(k))[2]]

\* gabor_filter(): the bank, or the RuntimeError of a view whose number of
\* elements differs from that of gb. The state keeps its element at grid
\* point (0, 0) of every (output, input) kernel.
GaborFilter(a, g, t) ==
    IF ~SynthesisBroadcasts(a, g)
           \/ Product(SynthesisShape(a, g)) # Product(ViewShape(a))
    THEN [NoWeight EXCEPT !.status = "RuntimeError"]
    ELSE [status |-> "ok",
          shape  |-> ViewShape(a),
          bank   |-> [e \in (0..(a.out_channels - 1)) \X (0..(a.in_channels - 1)) |->
                         BankElement(a, g, t, e[1], e[2], 0, 0)]]

\* The weight property: the bank is synthesized at every read.
WeightCached(a, g, t) ==
    IF t.weight.status = "ok" THEN t.weight ELSE GaborFilter(a, g, t)

Weight(a, g, t) == GaborFilter(a, g, t)

\* kernels = gb.weight
WeightRead ==
    /\ gb.status = "ok"
    /\ gbt' = [gbt EXCEPT !.weight = Weight(gb_args, gb, gbt)]
    /\ UNCHANGED <<gb_args, gb, train, relabel, rasters, object, size, subsets,
                   nworkers, pc, call, out, heap>>

(* ------------------- forward, backward, optimizer ---------------------- *)
MaxSteps == 2      \* optimizer steps taken on the Gabor layer

\* The layers of the forward / backward / step cell: a few sizes whose
\* view succeeds.
InitGaborTrain ==
    /\ gb_args \in [in_channels : 1..2, out_channels : {ThetaDivisor, 2 * ThetaDivisor},
                    kernel_size : {3}, n_thetas : {5}]
    /\ gb = NoGabor
    /\ gbt = NoTensors
    /\ LoopsIdle
    /\ DatasetUnused

\* out = gb(x): Conv2d.forward convolves with self.weight, read now.
Forward ==
    /\ gb.status = "ok"
    /\ Weight(gb_args, gb, gbt).status = "ok"
    /\ gbt' = [gbt EXCEPT !.seen = Weight(gb_args, gb, gbt), !.graph = TRUE]
    /\ UNCHANGED <<gb_args, gb, train, relabel, rasters, object, size, subsets,
                   nworkers, pc, call, out, heap>>

\* loss.backward(): a gradient for every leaf that requires one, the
\* registered parameters; the graph is freed.
Backward ==
    /\ gbt.graph
    /\ gbt' = [gbt EXCEPT !.grad = gbt.grad \cup gbt.parameters, !.graph = FALSE]
    /\ UNCHANGED <<gb_args, gb, train, relabel, rasters, object, size, subsets,
                   nworkers, pc, call, out, heap>>

\* optimizer = torch.optim.Adam(gb.parameters(), lr=0.1)
MakeOptimizer ==
    /\ gb.status = "ok"
    /\ gbt.optimizer = {}
    /\ gbt' = [gbt EXCEPT !.optimizer = gbt.parameters]
    /\ UNCHANGED <<gb_args, gb, train, relabel, rasters, object, size, subsets,
                   nworkers, pc, call, out, heap>>

\* The in-place update of one tensor by a step.
Stepped(values) == [e \in DOMAIN values |-> values[e] + 1]

SteppedAngles(values) ==
    [j \in DOMAIN values |-> <<values[j][1] + 1, values[j][2]>>]

\* The tensors a step updates: those handed to the optimizer that have a
\* gradient.
Updated(t) == t.optimizer \cap t.grad

\* optimizer.step()
OptimizerStep ==
    /\ gbt.optimizer # {}
    /\ gbt.steps < MaxSteps
    /\ LET u == Updated(gbt)
       IN  gbt' = [gbt EXCEPT
                     !.lambda_ = IF "lambda_" \in u THEN Stepped(@) ELSE @,
                     !.psi = IF "psi" \in u THEN Stepped(@) ELSE @,
                     !.sigma = IF "sigma" \in u THEN Stepped(@) ELSE @,
                     !.gamma = IF "gamma" \in u THEN Stepped(@) ELSE @,
                     !.thetas = IF "thetas" \in u THEN SteppedAngles(@) ELSE @,
                     !.steps = @ + 1]
    /\ UNCHANGED <<gb_args, gb, train, relabel, rasters, object, size, subsets,
                   nworkers, pc, call, out, heap>>

(* ------------------------- fine-tuning loop ---------------------------- *)
MaxEpochs == 3     \* num_epochs
MaxBatches == 2    \* batches of train_loader, and of val_loader
MaxLoss == 2       \* the losses are 0..MaxLoss

Losses == 0..MaxLoss

\* best_val = np.inf: above every loss.
Infinity == MaxLoss + 1

\* The values the layers start from: the loaded pretrained values of the
\* first convolution, the random initialisation of the others.
Pretrained == 1
Initialised == 0

\* model.parameters() of TinyAlexNet, by state_dict key.
ModelParameters ==
    {"features.0.weight", "features.0.bias", "features.3.weight", "features.3.bias",
     "classifier.1.weight", "classifier.1.bias", "classifier.4.weight",
     "classifier.4.bias"}

\* The tensors requires_grad_(False) is called on.
Frozen == {"features.0.weight", "features.0.bias"}

LoadedModel ==
    [p \in ModelParameters |->
        IF p \in {"features.0.weight", "features.0.bias"} THEN Pretrained
        ELSE Initialised]

NoCheckpoint == [epoch |-> -1, best_loss |-> Infinity, state_dict |-> <<>>]

Unbound == -1      \* a name the loop has not assigned yet

\* The state after the cell of num_epochs, best_val and optimizer; the
\* loaders yield n_train and n_val batches in every epoch.
InitTrain ==
    /\ \E e \in 0..MaxEpochs, nt \in 0..MaxBatches, nv \in 0..MaxBatches :
          train = [pc |-> "epoch", num_epochs |-> e, n_train |-> nt, n_val |-> nv,
                   epoch |-> 0, batch |-> 0,
                   params |-> LoadedModel,
                   requires_grad |-> ModelParameters \ Frozen,
                   optimizer |-> ModelParameters,
                   grad |-> [p \in ModelParameters |-> {}],
                   fwd |-> <<>>, loss |-> Unbound, val_loss |-> Unbound,
                   best_val |-> Infinity, saved |-> NoCheckpoint,
                   val_hist |-> <<>>, ends |-> <<>>, written |-> {}]
    /\ relabel = NoRelabel
    /\ gb_args = NoGaborArgs
    /\ gb = NoGabor
    /\ gbt = NoTensors
    /\ DatasetUnused

\* for epoch in range(num_epochs):
EpochNext ==
    /\ train.pc = "epoch"
    /\ train' = IF train.epoch < train.num_epochs
                THEN [train EXCEPT !.pc = "train", !.batch = 0]
                ELSE [train EXCEPT !.pc = "done"]
    /\ UNCHANGED <<gb_args, gb, gbt, relabel, rasters, object, size, subsets,
                   nworkers, pc, call, out, heap>>

\* for patch, label in train_loader: logits = model(patch);
\* loss = F.cross_entropy(logits, label)
TrainNext ==
    /\ train.pc = "train"
    /\ train' = IF train.batch < train.n_train
                THEN [train EXCEPT !.pc = "backward", !.fwd = train.params,
                                   !.loss = 0]
                ELSE [train EXCEPT !.pc = "val", !.batch = 0]
    /\ UNCHANGED <<gb_args, gb, gbt, relabel, rasters, object, size, subsets,
                   nworkers, pc, call, out, heap>>

\* loss.backward(): the batch's gradient is added to the gradient of every
\* tensor that requires one.
LossBackward ==
    /\ train.pc = "backward"
    /\ train' = [train EXCEPT
                   !.pc = "step",
                   !.grad = [p \in ModelParameters |->
                               IF p \in train.requires_grad
                               THEN train.grad[p] \cup {<<train.epoch, train.batch>>}
                               ELSE train.grad[p]]]
    /\ UNCHANGED <<gb_args, gb, gbt, relabel, rasters, object, size, subsets,
                   nworkers, pc, call, out, heap>>

\* The tensors Adam updates: those of its list whose gradient is not None.
SteppedEvenWithoutGradient(t) == t.optimizer

SteppedByAdam(t) == {p \in t.optimizer : t.grad[p] # {}}

\* optimizer.step()
AdamStep ==
    /\ train.pc = "step"
    /\ train' = [train EXCEPT
                   !.pc = "zero",
                   !.params = [p \in ModelParameters |->
                                 IF p \in SteppedByAdam(train)
                                 THEN train.params[p] + 1 ELSE train.params[p]]]
    /\ UNCHANGED <<gb_args, gb, gbt, relabel, rasters, object, size, subsets,
                   nworkers, pc, call, out, heap>>

\* The gradients optimizer.zero_grad() leaves.
GradientsKept(g) == g

GradientsReset(g) == [p \in DOMAIN g |-> {}]

\* optimizer.zero_grad(), then the next batch
ZeroGrad ==
    /\ train.pc = "zero"
    /\ train' = [train EXCEPT !.pc = "train", !.grad = GradientsReset(train.grad),
                              !.batch = train.batch + 1]
    /\ UNCHANGED <<gb_args, gb, gbt, relabel, rasters, object, size, subsets,
                   nworkers, pc, call, out, heap>>

\* for patch, label in val_loader: the forward pass under torch.no_grad(),
\* val_loss = F.cross_entropy(logits, label)
ValNext ==
    /\ train.pc = "val"
    /\ \/ /\ train.batch < train.n_val
          /\ \E l \in Losses :
                train' = [train EXCEPT !.val_loss = l, !.batch = train.batch + 1]
       \/ /\ train.batch = train.n_val
          /\ train' = [train EXCEPT !.pc = "check"]
    /\ UNCHANGED <<gb_args, gb, gbt, relabel, rasters, object, size, subsets,
                   nworkers, pc, call, out, heap>>

\* if val_loss.item() < best_val:
ImprovesOrTies(v, best) == v <= best

Improves(v, best) == v < best

\* The checkpoint test and torch.save; val_hist, ends and written keep the
\* history of the epochs.
Checkpoint ==
    /\ train.pc = "check"
    /\ train' =
          IF train.val_loss = Unbound THEN [train EXCEPT !.pc = "NameError"]
          ELSE LET t == [train EXCEPT !.pc = "report",
                                      !.val_hist = Append(@, train.val_loss),
                                      !.ends = Append(@, train.params)]
               IN  IF Improves(train.val_loss, train.best_val)
                   THEN [t EXCEPT !.best_val = train.val_loss,
                                  !.saved = [epoch |-> train.epoch,
                                             best_loss |-> train.val_loss,
                                             state_dict |-> train.params],
                                  !.written = @ \cup {train.epoch}]
                   ELSE t
    /\ UNCHANGED <<gb_args, gb, gbt, relabel, rasters, object, size, subsets,
                   nworkers, pc, call, out, heap>>

\* print(... loss.item() ...), then the next epoch
Report ==
    /\ train.pc = "report"
    /\ train' = IF train.loss = Unbound THEN [train EXCEPT !.pc = "NameError"]
                ELSE [train EXCEPT !.pc = "epoch", !.epoch = train.epoch + 1]
    /\ UNCHANGED <<gb_args, gb, gbt, relabel, rasters, object, size, subsets,
                   nworkers, pc, call, out, heap>>

(* --------------------- ground-truth relabelling ------------------------ *)
MaxPixels == 4     \* pixels of the ground truth that is relabelled
MaxClass == 4      \* class ids of the ground truth are 0..MaxClass

\* np.unique: the distinct values, ascending.
RECURSIVE SortedValues(_)
SortedValues(S) ==
    IF S = {} THEN <<>>
    ELSE LET least == CHOOSE v \in S : \A u \in S : v <= u
         IN  <<least>> \o SortedValues(S \ {least})

Unique(a) == SortedValues({a[k] : k \in DOMAIN a})

\* The ground truth after reproject and the crop: uint8 class ids.
InitRelabel ==
    /\ \E a \in [1..MaxPixels -> 0..MaxClass] :
          relabel = [pc |-> "unique", gt |-> a, before |-> a, unique |-> <<>>,
                     i |-> 0, rewritten |-> {}, again |-> {}]
    /\ train = NoTrain
    /\ gb_args = NoGaborArgs
    /\ gb = NoGabor
    /\ gbt = NoTensors
    /\ DatasetUnused

\* enumerate(np.unique(gt)): the ids are taken once, before the loop.
RelabelBegin ==
    /\ relabel.pc = "unique"
    /\ relabel' = [relabel EXCEPT !.pc = "loop", !.unique = Unique(relabel.gt)]
    /\ UNCHANGED <<gb_args, gb, gbt, train, rasters, object, size, subsets,
                   nworkers, pc, call, out, heap>>

\* The value written for the i-th id.
RelabelValueFromOne(i) == i + 1

RelabelValue(i) == i

\* gt[class_id == gt] = i; rewritten and again keep the pixels written so
\* far and those written more than once.
RelabelStep ==
    /\ relabel.pc = "loop"
    /\ relabel' =
          IF relabel.i < Len(relabel.unique)
          THEN LET class_id == relabel.unique[relabel.i + 1]
                   mask == {k \in DOMAIN relabel.gt : relabel.gt[k] = class_id}
               IN  [relabel EXCEPT
                      !.gt = [k \in DOMAIN relabel.gt |->
                                IF k \in mask THEN RelabelValue(relabel.i)
                                ELSE relabel.gt[k]],
                      !.again = @ \cup (mask \cap relabel.rewritten),
                      !.rewritten = @ \cup mask,
                      !.i = relabel.i + 1]
          ELSE [relabel EXCEPT !.pc = "done"]
    /\ UNCHANGED <<gb_args, gb, gbt, train, rasters, object, size, subsets,
                   nworkers, pc, call, out, heap>>

(* --------------------------- specifications ---------------------------- *)
Next ==
    \/ DatasetInit
    \/ LenQuery
    \/ \E i \in Tried(dataset) : GetItemBegin(1, i)
    \/ GetItemReturn(1)
    \/ WritePatch(1)
    \/ Release(1)

Spec == Init /\ [][Next]_vars

\* Several workers of a DataLoader pulling items of the same Dataset.
NextWorkers ==
    \/ DatasetInit
    \/ \E w \in Workers : \E i \in Tried(dataset) : GetItemBegin(w, i)
    \/ \E w \in Workers : GetItemReturn(w)
    \/ \E w \in Workers : WritePatch(w)
    \/ \E w \in Workers : Release(w)

SpecWorkers == InitWorkers /\ [][NextWorkers]_vars

\* The dataset, its split, and item access through the dataset and the subsets.
NextSplit ==
    \/ DatasetInit
    \/ \E r \in 0..Len(dataset.indices), n_train \in 0..Len(dataset.indices) :
          r < Len(dataset.indices) /\ Split(r, n_train)
    \/ \E w \in Workers : \E i \in 0..(Len(dataset.indices) - 1) : GetItemBegin(w, i)
    \/ \E w \in Workers : \E via \in {"train", "val"} :
          \E j \in 0..(Len(dataset.indices) - 1) : SubsetGetItemBegin(w, via, j)
    \/ \E w \in Workers : GetItemReturn(w)
    \/ \E w \in Workers : Release(w)

SpecSplit == InitSplit /\ [][NextSplit]_vars

NextGabor ==
    \/ GaborInit
    \/ WeightRead

SpecGabor == InitGabor /\ [][NextGabor]_vars

\* The cell that runs the layer: forward, backward and optimizer steps in
\* any order, with weight reads in between.
NextGaborTrain ==
    \/ GaborInit
    \/ WeightRead
    \/ Forward
    \/ Backward
    \/ MakeOptimizer
    \/ OptimizerStep

SpecGaborTrain == InitGaborTrain /\ [][NextGaborTrain]_vars

\* The fine-tuning loop.
NextTrain ==
    \/ EpochNext
    \/ TrainNext
    \/ LossBackward
    \/ AdamStep
    \/ ZeroGrad
    \/ ValNext
    \/ Checkpoint
    \/ Report

SpecTrain == InitTrain /\ [][NextTrain]_vars

\* The relabelling of the ground truth.
NextRelabel ==
    \/ RelabelBegin
    \/ RelabelStep

SpecRelabel == InitRelabel /\ [][NextRelabel]_vars

(* ============================== claims ================================= *)
\* patch_size // 2 of the built dataset.
HalfPatch == PyFloorDiv(hyperparams.patch_size, 2)

SameShape == gt.h = img.h /\ gt.w = img.w

\* patch_size is 0 or odd and positive, the sizes a patch can be centred for.
CentredPatchSize ==
    hyperparams.patch_size = 0
        \/ (hyperparams.patch_size > 0 /\ hyperparams.patch_size % 2 = 1)

IndexSet == {dataset.indices[k] : k \in 1..Len(dataset.indices)}

\* C1: after construction, for an image and a label array of equal height
\* and width and a patch_size >= 0, every stored coordinate has a label that
\* is not ignored, and its patch rows [row - p, row - p + patch_size) and
\* columns [col - p, col - p + patch_size) lie inside the raster.
C1_StoredCoordinatesValid ==
    (status = "built" /\ SameShape /\ hyperparams.patch_size >= 0) =>
        \A k \in 1..Len(dataset.indices) :
            LET t  == dataset.indices[k]
                ps == hyperparams.patch_size
            IN  /\ gt.px[t] \notin hyperparams.ignored_labels
                /\ t[1] - HalfPatch >= 0
                /\ t[1] - HalfPatch + ps <= img.h
                /\ t[2] - HalfPatch >= 0
                /\ t[2] - HalfPatch + ps <= img.w

\* C1 witness: a 3 x 3 patch on a raster where some pixel is ignored, some
\* pixel is dropped for the border, and yet a coordinate is stored.
C1_Witness ==
    /\ status = "built" /\ SameShape
    /\ hyperparams.patch_size = 3
    /\ Len(dataset.indices) > 0
    /\ \E t \in DOMAIN gt.px : gt.px[t] \in hyperparams.ignored_labels

\* C3: with one height and width for both arrays, the index sequence is, in
\* row-major order and without repetition, exactly the pixels whose label is
\* not ignored and with p <= row < height - p, p <= col < width - p; for
\* patch_size 0 every non-ignored pixel; for the 6 x 6 scenario with
\* patch_size 3 the 16 coordinates with row, col in 1..4.
C3_IndexSetExact ==
    (status = "built" /\ SameShape) =>
        /\ IndexSet = {t \in DOMAIN gt.px :
                          /\ gt.px[t] \notin hyperparams.ignored_labels
                          /\ HalfPatch <= t[1] /\ t[1] < img.h - HalfPatch
                          /\ HalfPatch <= t[2] /\ t[2] < img.w - HalfPatch}
        /\ \A j, k \in 1..Len(dataset.indices) :
              j < k => dataset.indices[j][1] * img.w + dataset.indices[j][2]
                          < dataset.indices[k][1] * img.w + dataset.indices[k][2]
        /\ hyperparams.patch_size = 0 =>
              IndexSet = {t \in DOMAIN gt.px :
                             gt.px[t] \notin hyperparams.ignored_labels}
        /\ (img.h = 6 /\ img.w = 6 /\ hyperparams.patch_size = 3
                /\ hyperparams.ignored_labels = {}) =>
              /\ Len(dataset.indices) = 16
              /\ IndexSet = (1..4) \X (1..4)

\* C3 witness: the 6 x 6 scenario, built.
C3_Witness ==
    /\ status = "built"
    /\ img.h = 6 /\ img.w = 6
    /\ hyperparams.patch_size = 3
    /\ Len(dataset.indices) = 16

C5_ConstructionRejects ==
    status # "new" =>
        IF CentredPatchSize /\ SameShape
        THEN status = "built"
        ELSE status = "ConfigurationError" /\ dataset = NoDataset

\* C8: the label list has the length and order of the index sequence,
\* labels[k] = gt[row_k, col_k], and neither changes after construction.
C8_ParallelLabels ==
    /\ [](status = "built" =>
             /\ Len(dataset.labels) = Len(dataset.indices)
             /\ \A k \in 1..Len(dataset.indices) :
                   dataset.labels[k] = gt.px[dataset.indices[k]])
    /\ [][status = "built" => dataset' = dataset]_vars

\* C8 witness: a dataset with two stored coordinates of different labels,
\* after an item access returned.
C8_Witness ==
    /\ status = "built"
    /\ \E j, k \in 1..Len(dataset.indices) : dataset.labels[j] # dataset.labels[k]
    /\ pc[1] = "returned"

\* The patch and the label the contract gives for stored position i, taken
\* from the image as loaded.
ExpectedChannels == img0.c

ExpectedPixel(i, ch, dy, dx) ==
    LET t == dataset.indices[i + 1]
    IN  img0.px[<<t[1] - HalfPatch + dy, t[2] - HalfPatch + dx, ch>>]

Returned(w) == pc[w] = "returned" /\ ~out[w].written

PatchAsSpecified(w) ==
    LET i  == out[w].i
        ps == hyperparams.patch_size
        pt == PatchOf(w)
    IN  /\ i >= 0 /\ i < Len(dataset.indices)
        /\ pt.c = ExpectedChannels /\ pt.ph = ps /\ pt.pw = ps
        /\ DOMAIN pt.px = (0..(ExpectedChannels - 1)) \X (0..(ps - 1)) \X (0..(ps - 1))
        /\ \A t \in DOMAIN pt.px : pt.px[t] = ExpectedPixel(i, t[1], t[2], t[3])
        /\ out[w].label = gt.px[dataset.indices[i + 1]]
        /\ (ps > 0 /\ ps % 2 = 1) =>
              \A ch \in 0..(ExpectedChannels - 1) :
                  pt.px[<<ch, ps \div 2, ps \div 2>>]
                      = img0.px[<<dataset.indices[i + 1][1],
                                  dataset.indices[i + 1][2], ch>>]

\* C2: on a dataset built from arrays of one height and width with
\* patch_size >= 0, item access at i in [0, size) returns a patch of shape
\* (channels, patch_size, patch_size) with patch[c][dy][dx] =
\* image[row - p + dy][col - p + dx][c] and the label labels[row][col] of the
\* i-th stored coordinate; for an odd patch_size the centre of the patch is
\* that pixel.
C2_ItemAccessValue ==
    (SameShape /\ hyperparams.patch_size >= 0) =>
        \A w \in Workers : Returned(w) => PatchAsSpecified(w)

\* C2 witness: a 3 x 3 patch was returned for a stored coordinate.
C2_Witness ==
    /\ SameShape /\ hyperparams.patch_size = 3
    /\ Returned(1)
    /\ PatchOf(1).ph = 3

\* What item access at stored position i returns when it runs alone on the
\* dataset as loaded.
AloneResult(i) ==
    LET c == GetItemLocals(dataset, gt, i)
    IN  [patch |-> CopyPatch(img0, c.x1, c.x2, c.y1, c.y2),
         label |-> Int64(c.label)]

\* C6: item access is a pure read. No step changes the image or the label
\* raster, nor, once built, the index sequence and the label list; two
\* results for the same i are identical; a result is never a view of the
\* image, and after a caller wrote into its patch every other result is
\* still the patch the contract gives.
C6_PureRead ==
    /\ [][/\ img' = img /\ gt' = gt
          /\ status = "built" => dataset' = dataset]_vars
    /\ [](\A w1, w2 \in Workers :
             (Returned(w1) /\ Returned(w2) /\ out[w1].i = out[w2].i) =>
                 /\ PatchOf(w1) = PatchOf(w2)
                 /\ out[w1].label = out[w2].label)
    /\ [](\A w \in Workers : pc[w] = "returned" => out[w].base # DataBase)
    /\ [](\A w1, w2 \in Workers :
             (pc[w1] = "returned" /\ out[w1].written /\ Returned(w2)) =>
                 PatchAsSpecified(w2))

\* C6 witness: a caller wrote into its patch for position i and another
\* call for the same i has returned.
C6_Witness ==
    /\ pc[1] = "returned" /\ out[1].written
    /\ Returned(2) /\ out[2].i = out[1].i

\* C7: with several workers calling item access concurrently, every result
\* is the one the call gives alone; no step of a call changes the rasters,
\* the dataset or what another call holds, and no two results share a buffer.
C7_ConcurrentCalls ==
    /\ [](\A w \in Workers : Returned(w) =>
             /\ PatchOf(w) = AloneResult(out[w].i).patch
             /\ out[w].label = AloneResult(out[w].i).label)
    /\ [](\A w1, w2 \in Workers :
             (w1 # w2 /\ pc[w1] = "returned" /\ pc[w2] = "returned") =>
                 out[w1].base # out[w2].base)
    /\ [][\A w \in Workers :
             (GetItemReturn(w) \/ \E i \in Tried(dataset) : GetItemBegin(w, i)) =>
                 /\ img' = img /\ gt' = gt /\ dataset' = dataset
                 /\ \A w2 \in Workers \ {w} :
                       out'[w2] = out[w2] /\ heap'[w2] = heap[w2]]_vars

\* C7 witness: a call is between its reads and its copy while another
\* worker holds the result for a different position.
C7_Witness ==
    /\ pc[1] = "sliced" /\ Returned(2)
    /\ call[1].i # out[2].i

SeqRange(q) == {q[k] : k \in 1..Len(q)}

\* C9: after the split the training and validation positions are disjoint,
\* without repetition, and together every position of the dataset; item
\* access through a subset reaches the dataset position the subset holds and
\* returns the patch and label the dataset returns for that position.
C9_SplitPartition ==
    split =>
        /\ SeqRange(train_dataset) \cap SeqRange(val_dataset) = {}
        /\ SeqRange(train_dataset) \cup SeqRange(val_dataset)
              = 0..(Len(dataset.indices) - 1)
        /\ Len(train_dataset) + Len(val_dataset) = Len(dataset.indices)
        /\ \A w \in Workers :
              (Returned(w) /\ out[w].via # "dataset") =>
                  /\ out[w].i = SubsetOf(out[w].via)[out[w].j + 1]
                  /\ PatchAsSpecified(w)
                  /\ \A w2 \in Workers :
                        (Returned(w2) /\ out[w2].via = "dataset"
                             /\ out[w2].i = out[w].i) =>
                            /\ PatchOf(w2) = PatchOf(w)
                            /\ out[w2].label = out[w].label

\* C9 witness: both subsets are non-empty, and the same position was
\* returned by the dataset and through the validation subset.
C9_Witness ==
    /\ split /\ Len(train_dataset) > 0 /\ Len(val_dataset) > 0
    /\ Returned(1) /\ out[1].via = "dataset"
    /\ Returned(2) /\ out[2].via = "val"
    /\ out[1].i = out[2].i

\* C10: constructing the layer with out_channels not divisible by the
\* requested n_thetas fails with ConfigurationError and allocates no
\* parameter; it succeeds only when out_channels % n_thetas = 0.
C10_GaborRejectsIndivisible ==
    gb.status # "new" =>
        IF gb_args.out_channels % gb_args.n_thetas = 0
        THEN gb.status = "ok"
        ELSE gb.status = "ConfigurationError" /\ gb.lambda_ = <<>>

\* C11: for every layer construction accepts, a weight read gives a bank of
\* shape (out_channels, in_channels, kernel_size, kernel_size): the number
\* of parameter groups times the number of orientations is out_channels and
\* the final view never fails.
C11_BankShape ==
    gbt.weight.status # "none" =>
        /\ gbt.weight.status = "ok"
        /\ gbt.weight.shape = <<gb_args.out_channels, gb_args.in_channels,
                                gb_args.kernel_size, gb_args.kernel_size>>
        /\ gb.n_groups * gb.n_thetas = gb_args.out_channels

C13_HalfOpenAngles ==
    gb.status = "ok" =>
        /\ Len(gbt.thetas) = gb.n_thetas
        /\ \A j \in 1..Len(gbt.thetas) :
              gbt.thetas[j][1] * gb.n_thetas = (j - 1) * gbt.thetas[j][2]
        /\ \A i, j \in 1..Len(gbt.thetas) :
              i # j =>
                  (gbt.thetas[i][1] % gbt.thetas[i][2]) * gbt.thetas[j][2]
                      # (gbt.thetas[j][1] % gbt.thetas[j][2]) * gbt.thetas[i][2]

\* C14: the angle vector is not optimizable: the layer exposes exactly the
\* four learnable tensors wavelength, phase, scale and aspect ratio, and
\* after any sequence of forward passes, backward passes and optimizer steps
\* the angle vector equals its value at construction.
C14_AnglesFixed ==
    gb.status = "ok" =>
        /\ gbt.parameters = {"lambda_", "psi", "sigma", "gamma"}
        /\ Cardinality(gbt.parameters) = 4
        /\ "thetas" \notin gbt.optimizer
        /\ gbt.thetas = gb.thetas

\* C14 witness: after two optimizer steps that moved the wavelength.
C14_Witness ==
    /\ gb.status = "ok" /\ gbt.steps = 2
    /\ gbt.lambda_[<<0, 0>>] = LambdaBase + 2

\* The bank b holds, for every kernel, the values the four parameter
\* tensors of t hold for the kernel's group and channel.
BankCurrent(b, t) ==
    /\ b.status = "ok"
    /\ \A e \in DOMAIN b.bank :
          LET pe == <<b.bank[e].group, b.bank[e].channel>>
          IN  /\ b.bank[e].lambda_ = t.lambda_[pe] /\ b.bank[e].psi = t.psi[pe]
              /\ b.bank[e].sigma = t.sigma[pe] /\ b.bank[e].gamma = t.gamma[pe]

\* C15: the weight is never cached: every read of weight and every forward
\* pass synthesizes the bank from the parameter values of that moment, also
\* after an optimizer step.
C15_WeightNotCached ==
    [][/\ WeightRead => BankCurrent(gbt'.weight, gbt)
       /\ Forward => BankCurrent(gbt'.seen, gbt)]_vars

\* C15 witness: a weight read before an optimizer step, then a read after
\* it that holds the stepped wavelength.
C15_Witness ==
    /\ gbt.steps >= 1
    /\ gbt.seen.status = "ok"
    /\ gbt.seen.bank[<<0, 0>>].lambda_ = LambdaBase
    /\ gbt.weight.status = "ok"
    /\ gbt.weight.bank[<<0, 0>>].lambda_ = LambdaBase + gbt.steps

\* The least validation loss of the first n epochs (np.inf before any).
RECURSIVE MinLoss(_, _)
MinLoss(hist, n) ==
    IF n = 0 THEN Infinity
    ELSE IF hist[n] < MinLoss(hist, n - 1) THEN hist[n] ELSE MinLoss(hist, n - 1)

\* The earliest epoch (from 0) whose validation loss is the least.
EarliestBest(hist) ==
    CHOOSE e \in 0..(Len(hist) - 1) :
        /\ hist[e + 1] = MinLoss(hist, Len(hist))
        /\ \A d \in 0..(e - 1) : hist[d + 1] # hist[e + 1]

\* C16: a checkpoint is written exactly in the epochs whose validation loss
\* is strictly below the best so far; best_val never increases; after every
\* epoch the last record holds the least validation loss of the epochs run,
\* the earliest epoch reaching it, and the parameters at the end of that
\* epoch.
C16_CheckpointIsBest ==
    /\ [](LET hist == train.val_hist
          IN  /\ train.written =
                    {e \in 0..(Len(hist) - 1) : hist[e + 1] < MinLoss(hist, e)}
              /\ train.best_val = MinLoss(hist, Len(hist))
              /\ Len(hist) > 0 =>
                    /\ train.saved.best_loss = MinLoss(hist, Len(hist))
                    /\ train.saved.epoch = EarliestBest(hist)
                    /\ train.saved.state_dict = train.ends[EarliestBest(hist) + 1])
    /\ [][train'.best_val <= train.best_val]_vars

\* C16 witness: three epochs run, the least validation loss reached in the
\* second and again in the third, after further training batches.
C16_Witness ==
    /\ Len(train.val_hist) = 3
    /\ train.val_hist[1] > train.val_hist[2]
    /\ train.val_hist[3] = train.val_hist[2]
    /\ train.saved.epoch = 1
    /\ train.n_train > 0
    /\ train.params # train.saved.state_dict

\* C17: once the first convolution is frozen, its weight and bias keep the
\* loaded pretrained values through the whole run, whatever the batch and
\* the epoch of an optimizer step, and the other parameters stay trainable.
C17_FrozenLayerKept ==
    /\ [](/\ train.params["features.0.weight"] = Pretrained
          /\ train.params["features.0.bias"] = Pretrained
          /\ train.requires_grad =
                ModelParameters \ {"features.0.weight", "features.0.bias"})
    /\ [][/\ train'.params["features.0.weight"] = train.params["features.0.weight"]
          /\ train'.params["features.0.bias"] = train.params["features.0.bias"]]_vars

\* C17 witness: in the second epoch, after optimizer steps that moved every
\* other parameter.
C17_Witness ==
    /\ train.epoch = 1 /\ train.pc = "zero"
    /\ \A p \in ModelParameters \ {"features.0.weight", "features.0.bias"} :
          train.params[p] >= Initialised + 2
    /\ train.params["features.0.weight"] = Pretrained

\* C18: no parameter changes between a batch's forward pass and its
\* backward pass; each optimizer step uses the gradient of one batch, the
\* current one, gradients being reset after every step; validation batches
\* update no parameter.
C18_ForwardBackwardUpdate ==
    /\ [](/\ train.pc \in {"backward", "step"} => train.params = train.fwd
          /\ train.pc = "step" =>
                \A p \in train.requires_grad :
                    train.grad[p] = {<<train.epoch, train.batch>>}
          /\ train.pc \in {"train", "val", "check", "report", "epoch"} =>
                \A p \in ModelParameters : train.grad[p] = {})
    /\ [][/\ train'.params # train.params => train.pc = "step"
          /\ train.pc = "val" => /\ train'.params = train.params
                                 /\ train'.grad = train.grad]_vars

\* C18 witness: the optimizer step of the second batch of the second epoch,
\* after a validation pass.
C18_Witness ==
    /\ train.pc = "step" /\ train.epoch = 1 /\ train.batch = 1
    /\ Len(train.val_hist) = 1
    /\ train.grad["classifier.4.weight"] = {<<1, 1>>}

\* C19: the in-place relabelling maps the K distinct class ids onto 0..K-1,
\* injectively and keeping their order: two pixels have equal labels
\* afterwards iff they had equal labels before, and no pixel rewritten in an
\* earlier step is rewritten in a later one.
C19_RelabelInjective ==
    /\ relabel.again = {}
    /\ relabel.pc = "done" =>
          LET K == Cardinality({relabel.before[k] : k \in DOMAIN relabel.before})
          IN  /\ {relabel.gt[k] : k \in DOMAIN relabel.gt} = 0..(K - 1)
              /\ \A k, l \in DOMAIN relabel.gt :
                    /\ (relabel.gt[k] = relabel.gt[l])
                          <=> (relabel.before[k] = relabel.before[l])
                    /\ (relabel.before[k] < relabel.before[l])
                          => (relabel.gt[k] < relabel.gt[l])

\* C19 witness: the ids 1, 2 and 4, where the value written for 2 is the id
\* rewritten one step before.
C19_Witness ==
    /\ relabel.pc = "done"
    /\ relabel.unique = <<1, 2, 4>>
    /\ relabel.before[1] = 2 /\ relabel.gt[1] = 1
    /\ relabel.before[2] = 1 /\ relabel.gt[2] = 0
    /\ relabel.before[3] = 4 /\ relabel.gt[3] = 2
====
